---- MODULE Spec2Model ----
(***************************************************************************)
(* MetamaskInpageProvider (src/index.js): the in-page provider built over  *)
(* one connection stream.  The model holds the module-level flags, the     *)
(* provider's mirrored fields, the publicConfigStore, the rpc engine with  *)
(* the json-rpc stream middleware behind it, the peer answering on the     *)
(* 'provider' channel, the mux that reads the peer's frames, and a second  *)
(* provider built in the same page.                                        *)
(***************************************************************************)
EXTENDS Integers, Sequences, FiniteSets, TLC

VARIABLES
  isEnabled,          \* let isEnabled (module level, line 12)
  isConnected,        \* let isConnected (module level, line 13)
  selectedAddress,    \* self.selectedAddress
  networkVersion,     \* self.networkVersion
  publicConfigStore,  \* state held by self.publicConfigStore
  snapshotSeen,       \* history: some snapshot has been received
  ended,              \* the connection stream has ended or errored
  errorListeners,     \* the 'error' listeners registered on the provider
  rpcEngine,          \* id counter, pending contexts, ids to restore
  sent,               \* history: the sendAsync calls of the application
  promises,           \* the promises returned by enable() and the like
  emitted,            \* events emitted by the last step
  thrown,             \* the last step threw to its caller
  subscribed,         \* _subscribe() has put its 'data' listener in place
  inbound,            \* history: the frame the mux read last
  instanceB           \* a second provider built in the same page

vars == << isEnabled, isConnected, selectedAddress, networkVersion,
           publicConfigStore, snapshotSeen, ended, errorListeners,
           rpcEngine, sent, promises, emitted, thrown, subscribed, inbound,
           instanceB >>

mirrorVars == << isConnected, selectedAddress, networkVersion,
                 publicConfigStore, snapshotSeen >>
rpcVars == << isEnabled, rpcEngine, sent, promises >>
extVars == << subscribed, inbound, instanceB >>

----------------------------------------------------------------------------
(* Bounds *)

MaxCalls == 2       \* requests the rpc engine is given

----------------------------------------------------------------------------
(* Values *)

Undefined == "undefined"      \* the JavaScript value undefined
Absent == "absent"            \* the key is not in the object at all
Null == "null"                \* the JavaScript value null
Addresses == {"0xabc", "0xdef"}
NetworkIds == {"1", "3"}
Listeners == {"onError"}

\* A state object pushed on the 'publicConfig' channel.
Snapshots ==
  [ selectedAddress : Addresses \cup {Undefined, Null, Absent},
    networkVersion  : NetworkIds \cup {Absent} ]

In(key, state) == state[key] # Absent
\* state.key: reading a key that is not there gives undefined
Get(state, key) == IF In(key, state) THEN state[key] ELSE Undefined

Event(target, name, args) == [ target |-> target, name |-> name, args |-> args ]

----------------------------------------------------------------------------
(* State mirror: publicConfigStore.subscribe handler, lines 40-57 *)

\* The handler is a `function`, and the store's emitter calls it: `this` in it
\* is the store, `self` is the provider.
subscribeThis == "publicConfigStore"

\* Mutant: an event for every field the state object holds, changed or not.
subscribeLevel(state) ==
  /\ isConnected' = TRUE
  /\ selectedAddress' = IF In("selectedAddress", state)
                          THEN state.selectedAddress ELSE selectedAddress
  /\ networkVersion' = IF In("networkVersion", state)
                         THEN state.networkVersion ELSE networkVersion
  /\ emitted' =
       (IF ~isConnected THEN << Event(subscribeThis, "connect", <<>>) >>
                        ELSE << >>)
       \o (IF In("selectedAddress", state)
             THEN << Event("provider", "accountsChanged",
                           << << state.selectedAddress >> >>) >>
             ELSE << >>)
       \o (IF In("networkVersion", state)
             THEN << Event("provider", "networkChanged",
                           << state.networkVersion >>) >>
             ELSE << >>)

\* Mutant: a field the state object does not hold is read as undefined and
\* compared like any other value.
subscribeClears(state) ==
  LET sa == Get(state, "selectedAddress")
      nv == Get(state, "networkVersion")
  IN  /\ isConnected' = TRUE
      /\ selectedAddress' = sa
      /\ networkVersion' = nv
      /\ emitted' =
           (IF ~isConnected THEN << Event(subscribeThis, "connect", <<>>) >>
                            ELSE << >>)
           \o (IF sa # selectedAddress
                 THEN << Event("provider", "accountsChanged", << << sa >> >>) >>
                 ELSE << >>)
           \o (IF nv # networkVersion
                 THEN << Event("provider", "networkChanged", << nv >>) >>
                 ELSE << >>)

subscribeHandler(state) ==
  LET connect == IF ~isConnected
                   THEN << Event(subscribeThis, "connect", <<>>) >>
                   ELSE << >>
      accounts == In("selectedAddress", state)
                    /\ state.selectedAddress # selectedAddress
      network == In("networkVersion", state)
                    /\ state.networkVersion # networkVersion
  IN  /\ isConnected' = TRUE
      /\ selectedAddress' = IF accounts THEN state.selectedAddress
                                        ELSE selectedAddress
      /\ networkVersion' = IF network THEN state.networkVersion
                                      ELSE networkVersion
      /\ emitted' = connect
           \o (IF accounts
                 THEN << Event("provider", "accountsChanged",
                               << << state.selectedAddress >> >>) >>
                 ELSE << >>)
           \o (IF network
                 THEN << Event("provider", "networkChanged",
                               << state.networkVersion >>) >>
                 ELSE << >>)

\* asStream(store) is written a state object: it puts it in the store, and
\* the store calls its subscribers with it.
putState(state) ==
  /\ publicConfigStore' = state
  /\ snapshotSeen' = TRUE
  /\ subscribeHandler(state)

\* A state object arrives on the 'publicConfig' substream.
Snapshot(state) ==
  /\ ~ended
  /\ putState(state)
  /\ thrown' = FALSE
  /\ UNCHANGED << ended, errorListeners >>
  /\ UNCHANGED rpcVars
  /\ UNCHANGED extVars

----------------------------------------------------------------------------
(* Transport disconnection: logStreamDisconnectWarning, lines 326-334 *)

listenerCount(name) == IF name = "error" THEN Cardinality(errorListeners) ELSE 0

\* Mutant: the event is emitted whether or not a listener is there; emitting
\* 'error' with no listener throws.
logAlwaysEmits(remoteLabel, err) ==
  /\ isConnected' = FALSE
  /\ emitted' = << Event("provider", "error", << remoteLabel, err >>) >>
  /\ thrown' = (listenerCount("error") = 0)

logStreamDisconnectWarning(remoteLabel, err) ==
  /\ isConnected' = FALSE
  /\ emitted' = IF listenerCount("error") > 0
                  THEN << Event("provider", "error", << remoteLabel, err >>) >>
                  ELSE << >>
  /\ thrown' = FALSE

\* The connection stream ends (err = FALSE) or errors (err = TRUE): pump calls
\* back, lines 29-34.  Nothing in the callback touches the pending calls.
Disconnect(err) ==
  /\ ~ended
  /\ ended' = TRUE
  /\ logStreamDisconnectWarning("MetaMask", err)
  /\ UNCHANGED << selectedAddress, networkVersion, publicConfigStore,
                  snapshotSeen, errorListeners >>
  /\ UNCHANGED rpcVars
  /\ UNCHANGED extVars

\* provider.on('error', listener), inherited from SafeEventEmitter (line 17)
On(listener) ==
  /\ listener \notin errorListeners
  /\ errorListeners' = errorListeners \cup {listener}
  /\ emitted' = << >>
  /\ thrown' = FALSE
  /\ UNCHANGED ended
  /\ UNCHANGED mirrorVars
  /\ UNCHANGED rpcVars
  /\ UNCHANGED extVars

----------------------------------------------------------------------------
(* JSON-RPC values *)

\* no error: null / undefined
NoError == [ code |-> 0, message |-> Undefined, data |-> << >> ]
NoResult == << Undefined >>
\* The errors of the peer; data says which request the error answers.
UserRejected(req) ==
  [ code |-> 5, message |-> "User rejected", data |-> << req.method, req.params >> ]
InternalError(req) ==
  [ code |-> 0 - 32603, message |-> "Internal error",
    data |-> << req.method, req.params >> ]
AccountLists == { << >>, << "0xabc" >> }
\* The application gives every call its own params.
ParamsOf(i) == ToString(i)
\* payload.id of a payload that holds no id
NoId == 0
\* The application numbers its payloads 1, 2, ... as web3 does.
IdOf(i) == i
EmptyMap == [ x \in {} |-> x ]

Callback(kind, ref) == [ kind |-> kind, ref |-> ref ]
noop == Callback("noop", 0)

\* The part of the state the call path works on, threaded through it.
World ==
  [ rpcEngine |-> rpcEngine, sent |-> sent, promises |-> promises,
    isEnabled |-> isEnabled, thrown |-> FALSE ]

Commit(w) ==
  /\ rpcEngine' = w.rpcEngine
  /\ sent' = w.sent
  /\ promises' = w.promises
  /\ isEnabled' = w.isEnabled
  /\ thrown' = w.thrown

----------------------------------------------------------------------------
(* The rpc engine and the stream middleware behind it, lines 69-82 *)

\* rpcEngine.handle(payload, cb): the id remap middleware keeps the id the
\* payload came with and gives the request the next id of its own counter;
\* the stream middleware writes the request to the 'provider' substream and
\* keeps its context (the request, and the way back to cb) in idMap under
\* that id.  The counter's start value is called 0.
handle(w, payload, cb) ==
  LET newId == w.rpcEngine.idCounter + 1
      originalId == IF "id" \in DOMAIN payload THEN payload.id ELSE NoId
      req == [ id |-> newId, method |-> payload.method,
               params |-> payload.params ]
  IN  [ w EXCEPT !.rpcEngine =
          [ idCounter |-> newId,
            idMap |-> (newId :> [ req |-> req, cb |-> cb ])
                        @@ w.rpcEngine.idMap,
            remap |-> (newId :> originalId) @@ w.rpcEngine.remap ] ]

\* Mutant: the response goes back under the id it came with on the wire.
keepWireId(res, originalId) == res

\* The id remap middleware on the way back: res.id = originalId.
restoreId(res, originalId) == [ res EXCEPT !.id = originalId ]

\* Mutant: the response completes the oldest pending request, whatever its id.
matchOldest(idMap, id) ==
  idMap[CHOOSE x \in DOMAIN idMap : \A y \in DOMAIN idMap : x <= y]

\* The context a response frame with this id completes: idMap[res.id].
matchContext(idMap, id) == idMap[id]

\* createErrorMiddleware (./createErrorMiddleware): the response goes back to
\* the caller with the error the server gave.
createErrorMiddleware(res) == res

----------------------------------------------------------------------------
(* Promises *)

NewPromise == [ state |-> "pending", value |-> NoResult, reason |-> NoError ]

\* Mutant: the error is thrown instead of rejecting the promise with it.
rejectThrows(w, p, reason) == [ w EXCEPT !.thrown = TRUE ]

resolve(w, p, value) ==
  IF w.promises[p].state = "pending"
    THEN [ w EXCEPT !.promises[p] =
             [ state |-> "resolved", value |-> value, reason |-> NoError ] ]
    ELSE w

reject(w, p, reason) ==
  IF w.promises[p].state = "pending"
    THEN [ w EXCEPT !.promises[p] =
             [ state |-> "rejected", value |-> NoResult, reason |-> reason ] ]
    ELSE w

----------------------------------------------------------------------------
(* sendAsync, enable, getAccounts *)

RECURSIVE sendAsync(_, _, _)

\* The callback getAccounts gives to sendAsync, lines 309-318.  The promise of
\* getAccounts is chained to the one of enable (.then(resolve).catch(reject)),
\* so p stands for both.
getAccountsCallback(w, p, error, response) ==
  LET w1 == IF error # NoError THEN reject(w, p, error) ELSE w
      w2 == IF response.error # NoError THEN reject(w1, p, response.error)
                                        ELSE w1
  IN  resolve(w2, p, response.result)

\* getAccounts, lines 304-320
getAccounts(w, p) ==
  sendAsync(w, [ method |-> "eth_accounts", params |-> "[]" ],
            Callback("getAccounts", p))

\* Mutant: the flag is not set when the permission request succeeds.
enableForgetsFlag(w, p, err, res) ==
  IF err # NoError
    THEN reject(w, p, err)
  ELSE IF res.error # NoError /\ res.error.code = 5
    THEN reject(w, p, res.error)
  ELSE IF res.error # NoError
    THEN reject(w, p, [ message |-> res.error, code |-> 4001 ])
  ELSE getAccounts(w, p)

\* Mutant: the rejections do not return, and the success path runs after them.
enableNoReturn(w, p, err, res) ==
  LET w1 == IF err # NoError
              THEN reject(w, p, err)
            ELSE IF res.error # NoError /\ res.error.code = 5
              THEN reject(w, p, res.error)
            ELSE IF res.error # NoError
              THEN reject(w, p, [ message |-> res.error, code |-> 4001 ])
            ELSE w
  IN  getAccounts([ w1 EXCEPT !.isEnabled = TRUE ], p)

\* The callback enable gives to sendAsync, lines 207-230
enableCallback(w, p, err, res) ==
  IF err # NoError
    THEN reject(w, p, err)
  ELSE IF res.error # NoError /\ res.error.code = 5
    THEN reject(w, p, res.error)
  ELSE IF res.error # NoError
    THEN reject(w, p, [ message |-> res.error, code |-> 4001 ])
  ELSE getAccounts([ w EXCEPT !.isEnabled = TRUE ], p)

\* enable, lines 196-232: extend(opts, defaultOpts) always ends with the method
\* and params of defaultOpts.
enable(w) ==
  LET p == Len(w.promises) + 1
      w1 == [ w EXCEPT !.promises = Append(w.promises, NewPromise) ]
  IN  sendAsync(w1, [ method |-> "wallet_requestPermissions",
                      params |-> "[{eth_accounts:{}}]" ],
                Callback("enable", p))

\* sendAsync, lines 135-143
sendAsync(w, payload, cb) ==
  IF payload.method = "eth_requestAccounts"
    THEN enable(w)
    ELSE handle(w, payload, cb)

\* The callback isApproved gives to sendAsync, lines 276-291: an error of
\* another code than 5 is passed over.
isApprovedCallback(w, p, err, res) ==
  IF err # NoError
    THEN reject(w, p, err)
  ELSE IF res.error # NoError /\ res.error.code = 5
    THEN reject(w, p, res.error)
  ELSE getAccounts(w, p)

\* isApproved, lines 268-293
isApproved(w) ==
  LET p == Len(w.promises) + 1
      w1 == [ w EXCEPT !.promises = Append(w.promises, NewPromise) ]
  IN  sendAsync(w1, [ method |-> "wallet_requestPermissions",
                      params |-> "[{readYourProfile:{},writeToYourProfile:{}}]" ],
                Callback("isApproved", p))

\* The callback send2 gives to sendAsync, lines 122-125
send2Callback(w, p, error, response) ==
  LET e == IF error # NoError THEN error ELSE response.error
  IN  IF e # NoError THEN reject(w, p, e) ELSE resolve(w, p, response)

\* send2, lines 117-131: what sendAsync throws is caught and dropped.
send2(w, method, params) ==
  IF method = "eth_requestAccounts"
    THEN enable(w)
    ELSE LET p == Len(w.promises) + 1
             w1 == [ w EXCEPT !.promises = Append(w.promises, NewPromise) ]
             w2 == sendAsync(w1, [ method |-> method, params |-> params,
                                   beta |-> TRUE ],
                             Callback("send2", p))
         IN  [ w2 EXCEPT !.thrown = FALSE ]

\* The callback the application gave to sendAsync: the model records what it
\* was called with.
userCallback(w, i, err, res) ==
  [ w EXCEPT !.sent[i] =
      [ @ EXCEPT !.cbCount = @ + 1, !.cbErr = err,
                 !.cbRes = [ result |-> res.result, error |-> res.error ],
                 !.cbId = res.id ] ]

invoke(cb, w, err, res) ==
  CASE cb.kind = "user" -> userCallback(w, cb.ref, err, res)
    [] cb.kind = "enable" -> enableCallback(w, cb.ref, err, res)
    [] cb.kind = "getAccounts" -> getAccountsCallback(w, cb.ref, err, res)
    [] cb.kind = "isApproved" -> isApprovedCallback(w, cb.ref, err, res)
    [] cb.kind = "send2" -> send2Callback(w, cb.ref, err, res)
    [] OTHER -> w

----------------------------------------------------------------------------
(* The application's calls *)

NoResponse == [ result |-> NoResult, error |-> NoError ]

\* provider.sendAsync(payload, cb) called by the application with a payload
\* of this method and id.  The record kept for the call also says whether the
\* stream was still up when it was made, and which promise enable() would
\* return for it.
SendAsyncWith(method, id) ==
  /\ rpcEngine.idCounter < MaxCalls
  /\ LET i == Len(sent) + 1
         params == ParamsOf(i)
         w == [ World EXCEPT !.sent =
                  Append(sent, [ method |-> method, params |-> params,
                                 id |-> id, live |-> ~ended,
                                 promise |-> Len(promises) + 1,
                                 cbCount |-> 0, cbErr |-> NoError,
                                 cbRes |-> NoResponse, cbId |-> NoId ]) ]
     IN  Commit(sendAsync(w, [ id |-> id, method |-> method,
                               params |-> params ],
                          Callback("user", i)))
  /\ emitted' = << >>
  /\ UNCHANGED << ended, errorListeners >>
  /\ UNCHANGED mirrorVars
  /\ UNCHANGED extVars

SendAsync(method) == SendAsyncWith(method, IdOf(Len(sent) + 1))

\* provider.enable() called by the application
Enable ==
  /\ rpcEngine.idCounter < MaxCalls
  /\ Commit(enable(World))
  /\ emitted' = << >>
  /\ UNCHANGED << ended, errorListeners >>
  /\ UNCHANGED mirrorVars
  /\ UNCHANGED extVars

\* provider.isApproved() called by the application
IsApproved ==
  /\ rpcEngine.idCounter < MaxCalls
  /\ Commit(isApproved(World))
  /\ emitted' = << >>
  /\ UNCHANGED << ended, errorListeners >>
  /\ UNCHANGED mirrorVars
  /\ UNCHANGED extVars

\* provider.getAccounts() called by the application
GetAccounts ==
  /\ rpcEngine.idCounter < MaxCalls
  /\ Commit(getAccounts([ World EXCEPT !.promises =
                                         Append(promises, NewPromise) ],
                        Len(promises) + 1))
  /\ emitted' = << >>
  /\ UNCHANGED << ended, errorListeners >>
  /\ UNCHANGED mirrorVars
  /\ UNCHANGED extVars

\* provider.send(a, b), lines 110-115, called by the application in one of
\* three ways: send(method), send(method, params) and send(payload, cb).
SendForms == { "method", "methodParams", "payload" }

Send(form, method) ==
  /\ rpcEngine.idCounter < MaxCalls
  /\ LET i == Len(sent) + 1
         params == ParamsOf(i)
         isString == form \in { "method", "methodParams" }
         hasB == form \in { "methodParams", "payload" }
         isArray == form = "methodParams"
     IN  IF (isString /\ ~hasB) \/ isArray
           THEN /\ Commit(send2(World, method,
                                IF isArray THEN params ELSE "[]"))
                /\ emitted' = << >>
                /\ UNCHANGED << ended, errorListeners >>
                /\ UNCHANGED mirrorVars
                /\ UNCHANGED extVars
           ELSE SendAsync(method)

----------------------------------------------------------------------------
(* The peer answering on the 'provider' channel *)

\* The responses the peer may give to a request it read from the channel: an
\* error, or the result of that request.
peerResponses(req) ==
  { [ result |-> NoResult, error |-> e ] :
      e \in { UserRejected(req), InternalError(req) } }
  \cup
  { [ result |-> r, error |-> NoError ] :
      r \in CASE req.method = "eth_accounts" -> AccountLists
              [] req.method = "wallet_requestPermissions"
                   -> { << "eth_accounts" >> }
              [] OTHER -> { << req.method, req.params >> } }

\* The frames the peer may send with this id: a response to the request it
\* read under that id, or, once that is answered, one more frame.
framesFor(id) ==
  IF id \in DOMAIN rpcEngine.idMap
    THEN peerResponses(rpcEngine.idMap[id].req)
    ELSE { NoResponse }

\* The stream middleware is written a response frame with this id: it looks
\* up the context kept under the id, drops it and ends the request; the
\* response goes back through the error middleware and the id remap
\* middleware, and the engine calls the callback with it.  A frame whose id
\* has no context completes nothing.  None of the three middlewares ends a
\* request with an error of its own, so the callback's first argument is null.
processResponse(id, frame) ==
  LET idMap == rpcEngine.idMap
      remap == rpcEngine.remap
      w == [ World EXCEPT
               !.rpcEngine.idMap = [ x \in DOMAIN idMap \ {id} |-> idMap[x] ],
               !.rpcEngine.remap = [ x \in DOMAIN remap \ {id} |-> remap[x] ] ]
      wireRes == [ id |-> id, result |-> frame.result, error |-> frame.error ]
      res == restoreId(createErrorMiddleware(wireRes), remap[id])
  IN  IF id \in DOMAIN idMap
        THEN Commit(invoke(matchContext(idMap, id).cb, w, NoError, res))
        ELSE UNCHANGED rpcVars /\ thrown' = FALSE

\* A response frame with this id arrives on the 'provider' substream.
ReceiveResponse(id, frame) ==
  /\ ~ended
  /\ frame \in framesFor(id)
  /\ processResponse(id, frame)
  /\ emitted' = << >>
  /\ UNCHANGED << ended, errorListeners >>
  /\ UNCHANGED mirrorVars
  /\ UNCHANGED extVars

----------------------------------------------------------------------------
(* The synchronous facade: _sendSync, lines 145-188 *)

AsyncMethods == { "eth_call", "eth_requestAccounts" }
\* The methods _sendSync answers, lines 152-169
SupportedSync == { "eth_accounts", "eth_coinbase", "eth_uninstallFilter",
                   "net_version" }
SyncMethods == { "eth_accounts", "eth_coinbase", "eth_uninstallFilter",
                 "net_version", "eth_call" }

Truthy(v) == v \notin { Undefined, Null, "" }

\* Mutant: a method outside the switch is answered with null.
sendSyncLenient(method) ==
  CASE method = "eth_accounts" ->
         LET sa == Get(publicConfigStore, "selectedAddress")
         IN  [ method |-> method, threw |-> FALSE,
               result |-> IF Truthy(sa) THEN << sa >> ELSE << >> ]
    [] method = "eth_coinbase" ->
         LET sa == Get(publicConfigStore, "selectedAddress")
         IN  [ method |-> method, threw |-> FALSE,
               result |-> IF Truthy(sa) THEN sa ELSE Null ]
    [] method = "eth_uninstallFilter" ->
         [ method |-> method, threw |-> FALSE, result |-> "true" ]
    [] method = "net_version" ->
         LET nv == Get(publicConfigStore, "networkVersion")
         IN  [ method |-> method, threw |-> FALSE,
               result |-> IF Truthy(nv) THEN nv ELSE Null ]
    [] OTHER -> [ method |-> method, threw |-> FALSE, result |-> Null ]

\* Mutant: the answer to eth_uninstallFilter is the one the peer has given,
\* and null as long as there is none.
sendSyncWaits(method) ==
  CASE method = "eth_accounts" ->
         LET sa == Get(publicConfigStore, "selectedAddress")
         IN  [ method |-> method, threw |-> FALSE,
               result |-> IF Truthy(sa) THEN << sa >> ELSE << >> ]
    [] method = "eth_coinbase" ->
         LET sa == Get(publicConfigStore, "selectedAddress")
         IN  [ method |-> method, threw |-> FALSE,
               result |-> IF Truthy(sa) THEN sa ELSE Null ]
    [] method = "eth_uninstallFilter" ->
         [ method |-> method, threw |-> FALSE,
           result |-> IF \E id \in DOMAIN rpcEngine.idMap :
                           rpcEngine.idMap[id].req.method = method
                        THEN Null ELSE "true" ]
    [] method = "net_version" ->
         LET nv == Get(publicConfigStore, "networkVersion")
         IN  [ method |-> method, threw |-> FALSE,
               result |-> IF Truthy(nv) THEN nv ELSE Null ]
    [] OTHER -> [ method |-> method, threw |-> TRUE, result |-> Undefined ]

_sendSync(method) ==
  CASE method = "eth_accounts" ->
         LET sa == Get(publicConfigStore, "selectedAddress")
         IN  [ method |-> method, threw |-> FALSE,
               result |-> IF Truthy(sa) THEN << sa >> ELSE << >> ]
    [] method = "eth_coinbase" ->
         LET sa == Get(publicConfigStore, "selectedAddress")
         IN  [ method |-> method, threw |-> FALSE,
               result |-> IF Truthy(sa) THEN sa ELSE Null ]
    [] method = "eth_uninstallFilter" ->
         [ method |-> method, threw |-> FALSE, result |-> "true" ]
    [] method = "net_version" ->
         LET nv == Get(publicConfigStore, "networkVersion")
         IN  [ method |-> method, threw |-> FALSE,
               result |-> IF Truthy(nv) THEN nv ELSE Null ]
    [] OTHER -> [ method |-> method, threw |-> TRUE, result |-> Undefined ]

\* provider._sendSync(payload) called by the application
SendSync(method) ==
  /\ IF method = "eth_uninstallFilter"
       THEN /\ rpcEngine.idCounter < MaxCalls
            /\ Commit(sendAsync(World, [ method |-> method,
                                         params |-> "[filterId]" ], noop))
       ELSE /\ UNCHANGED rpcVars
            /\ thrown' = _sendSync(method).threw
  /\ emitted' = << >>
  /\ UNCHANGED << ended, errorListeners >>
  /\ UNCHANGED mirrorVars
  /\ UNCHANGED extVars

----------------------------------------------------------------------------
(* Inbound frames: the mux and the consumers of its substreams, lines 27-84 *)

NoParams == [ subscription |-> Undefined, result |-> Undefined ]

\* What the peer writes on a channel is an object holding some of these keys
\* (id NoId, method undefined, selectedAddress absent: the key is not there),
\* or, form "json", the JSON text of one.
EmptyObject ==
  [ form |-> "object", id |-> NoId, method |-> Undefined, params |-> NoParams,
    result |-> NoResult, error |-> NoError,
    selectedAddress |-> Absent, networkVersion |-> Absent ]

StateObject(state) ==
  [ EmptyObject EXCEPT !.selectedAddress = state.selectedAddress,
                       !.networkVersion = state.networkVersion ]

ResponseObject(id, frame) ==
  [ EmptyObject EXCEPT !.id = id, !.result = frame.result,
                       !.error = frame.error ]

\* A server-initiated message: no id, a method, and the pushed value in params.
Push(form, method) ==
  [ EmptyObject EXCEPT !.form = form, !.method = method,
                       !.params = [ subscription |-> "0x1",
                                    result |-> "0xblock" ] ]

Channels == { "publicConfig", "provider", "phishing" }
PushMethods == { "eth_subscription", "net_peerCount" }
ChannelStates ==
  { [ selectedAddress |-> "0xabc", networkVersion |-> "1" ],
    [ selectedAddress |-> Absent, networkVersion |-> "3" ] }

\* The objects the peer may write: a state object, a response to a request it
\* has read, a push.
PeerObjects ==
  { StateObject(state) : state \in ChannelStates }
  \cup UNION { { ResponseObject(id, frame) :
                   frame \in peerResponses(rpcEngine.idMap[id].req) } :
                 id \in DOMAIN rpcEngine.idMap }
  \cup { Push("object", method) : method \in PushMethods }

NoFrame == [ name |-> "none", data |-> EmptyObject ]

\* The frames the mux may read from the connection stream: any of the peer's
\* objects under any channel name, and the JSON text of a push on 'provider'.
Frames ==
  { [ name |-> name, data |-> data ] :
      name \in Channels, data \in PeerObjects }
  \cup { [ name |-> "provider", data |-> Push("json", method) ] :
           method \in PushMethods }

\* The state asStream(store) puts in the store: of the object's keys the
\* model keeps the two the provider reads.
StateOf(data) ==
  [ selectedAddress |-> data.selectedAddress,
    networkVersion |-> data.networkVersion ]

\* JSON.parse(message): a text is parsed; an object is first turned into the
\* string "[object Object]", which is no JSON.
JSONparse(message) ==
  IF message.form = "json"
    THEN [ threw |-> FALSE, value |-> [ message EXCEPT !.form = "object" ] ]
    ELSE [ threw |-> TRUE, value |-> EmptyObject ]

\* value.key: a string has none of the keys.
Prop(value, key) == IF value.form = "object" THEN value[key] ELSE Undefined

\* receive(message), lines 92-107: the events it emits.
receive(message) ==
  LET parsed == JSONparse(message)
      data == parsed.value
  IN  IF ~parsed.threw /\ Truthy(data.method)
           /\ data.method = "eth_subscription"
        THEN << Event("provider", "data", << Null, message >>) >>
        ELSE << >>

\* The 'data' listener of _subscribe, lines 296-300, called with the
\* arguments of a 'data' event: the events it emits.
subscribeListener(error, message) ==
  IF error = Null /\ Prop(message, "method") = "eth_subscription"
    THEN << Event("provider", "notification",
                  << Prop(message, "params").result >>) >>
    ELSE << >>

\* provider._subscribe() called by the application, lines 295-301
Subscribe ==
  /\ ~subscribed
  /\ subscribed' = TRUE
  /\ emitted' = << >>
  /\ thrown' = FALSE
  /\ UNCHANGED << ended, errorListeners, inbound, instanceB >>
  /\ UNCHANGED mirrorVars
  /\ UNCHANGED rpcVars

\* The stream middleware is written a message, line 69: one without an id is
\* a notification, handed to receive (line 84), whose 'data' event goes to
\* the listener of _subscribe when it is there; one with an id is a response.
processMessage(res) ==
  IF res.form = "json" \/ res.id = NoId
    THEN LET data == receive(res)
         IN  /\ emitted' = data \o
                   (IF subscribed /\ Len(data) > 0
                      THEN subscribeListener(data[1].args[1], data[1].args[2])
                      ELSE << >>)
             /\ thrown' = FALSE
             /\ UNCHANGED rpcVars
    ELSE /\ processResponse(res.id, [ result |-> res.result,
                                      error |-> res.error ])
         /\ emitted' = << >>

\* Mutant: a frame goes to the stream middleware whatever its name.
substreamUntagged(name) == "jsonRpcConnection"

\* The consumer the constructor wires to the substream of this name, lines
\* 60, 66 and 72; a frame of any other name is dropped by the mux.
substream(name) ==
  CASE name = "publicConfig" -> "publicConfigStore"
    [] name = "provider" -> "jsonRpcConnection"
    [] name = "phishing" -> "ignored"
    [] OTHER -> "orphaned"

\* The mux reads a frame from the connection stream and pushes its data on
\* the substream of its name.
Write(frame) ==
  /\ ~ended
  /\ frame \in Frames
  /\ inbound' = frame
  /\ LET to == substream(frame.name)
     IN  CASE to = "publicConfigStore" ->
                /\ putState(StateOf(frame.data))
                /\ thrown' = FALSE
                /\ UNCHANGED rpcVars
           [] to = "jsonRpcConnection" ->
                /\ processMessage(frame.data)
                /\ UNCHANGED mirrorVars
           [] OTHER ->
                /\ emitted' = << >>
                /\ thrown' = FALSE
                /\ UNCHANGED mirrorVars
                /\ UNCHANGED rpcVars
  /\ UNCHANGED << ended, errorListeners, subscribed, instanceB >>

----------------------------------------------------------------------------
(* A second provider built in the same page over another stream *)

\* The second instance B has its own stream, store and mirrored fields; the
\* flags isEnabled and isConnected are the module's (lines 12-13), the same
\* for both.  Of B the model keeps the mirrored fields and, as history,
\* whether it has seen a state object and whether its stream has ended.
NewInstance ==
  [ selectedAddress |-> Undefined, networkVersion |-> Undefined,
    snapshotSeen |-> FALSE, ended |-> FALSE ]

\* instance.isConnected() and instance.isEnabled(), lines 249-260: they
\* return the module's flags, whichever instance they are called on.
isConnectedOf(instance) == isConnected
isEnabledOf(instance) == isEnabled

\* A state object arrives on the 'publicConfig' substream of B: the
\* subscribe handler of lines 40-57 with self = B and this = B's store.
SnapshotB(state) ==
  /\ ~instanceB.ended
  /\ LET accounts == In("selectedAddress", state)
                       /\ state.selectedAddress # instanceB.selectedAddress
         network == In("networkVersion", state)
                       /\ state.networkVersion # instanceB.networkVersion
     IN  /\ isConnected' = TRUE
         /\ instanceB' =
              [ instanceB EXCEPT
                  !.snapshotSeen = TRUE,
                  !.selectedAddress = IF accounts THEN state.selectedAddress
                                                  ELSE @,
                  !.networkVersion = IF network THEN state.networkVersion
                                                ELSE @ ]
         /\ emitted' =
              (IF ~isConnected
                 THEN << Event("publicConfigStoreB", "connect", <<>>) >>
                 ELSE << >>)
              \o (IF accounts
                    THEN << Event("providerB", "accountsChanged",
                                  << << state.selectedAddress >> >>) >>
                    ELSE << >>)
              \o (IF network
                    THEN << Event("providerB", "networkChanged",
                                  << state.networkVersion >>) >>
                    ELSE << >>)
  /\ thrown' = FALSE
  /\ UNCHANGED << selectedAddress, networkVersion, publicConfigStore,
                  snapshotSeen, ended, errorListeners, subscribed, inbound >>
  /\ UNCHANGED rpcVars

\* The connection stream of B ends or errors: logStreamDisconnectWarning
\* with this = B, which has no 'error' listener.
DisconnectB(err) ==
  /\ ~instanceB.ended
  /\ instanceB' = [ instanceB EXCEPT !.ended = TRUE ]
  /\ isConnected' = FALSE
  /\ emitted' = << >>
  /\ thrown' = FALSE
  /\ UNCHANGED << selectedAddress, networkVersion, publicConfigStore,
                  snapshotSeen, ended, errorListeners, subscribed, inbound >>
  /\ UNCHANGED rpcVars

----------------------------------------------------------------------------

Init ==
  /\ isEnabled = FALSE
  /\ isConnected = FALSE
  /\ selectedAddress = Undefined
  /\ networkVersion = Undefined
  /\ publicConfigStore = [ selectedAddress |-> Absent, networkVersion |-> Absent ]
  /\ snapshotSeen = FALSE
  /\ ended = FALSE
  /\ errorListeners = {}
  /\ rpcEngine = [ idCounter |-> 0, idMap |-> EmptyMap, remap |-> EmptyMap ]
  /\ sent = << >>
  /\ promises = << >>
  /\ emitted = << >>
  /\ thrown = FALSE
  /\ subscribed = FALSE
  /\ inbound = NoFrame
  /\ instanceB = NewInstance

\* The state mirror and the synchronous facade that reads it.
MirrorNext ==
  \/ \E state \in Snapshots : Snapshot(state)
  \/ \E method \in SyncMethods : SendSync(method)
  \/ \E err \in BOOLEAN : Disconnect(err)
  \/ \E listener \in Listeners : On(listener)

\* The call path: the application's calls and the peer's responses.
RpcNext ==
  \/ \E method \in AsyncMethods : SendAsync(method)
  \/ Enable
  \/ \E id \in 1..rpcEngine.idCounter :
       \E frame \in framesFor(id) : ReceiveResponse(id, frame)
  \/ SendSync("eth_uninstallFilter")
  \/ \E err \in BOOLEAN : Disconnect(err)
  \/ \E listener \in Listeners : On(listener)

\* The mux with its three channels, and the calls its responses answer.
ChannelNext ==
  \/ SendAsync("eth_call")
  \/ Subscribe
  \/ \E frame \in Frames : Write(frame)

\* The ids the application may put in a payload; it may use one twice.
CallerIds == { 1, 2, 7 }

\* Calls made with ids of the application's choice, and their responses.
IdNext ==
  \/ \E id \in CallerIds : SendAsyncWith("eth_call", id)
  \/ \E id \in 1..rpcEngine.idCounter :
       \E frame \in framesFor(id) : ReceiveResponse(id, frame)

\* Two instances in one page: state objects and disconnection on either,
\* enable() on the first.
TwoNext ==
  \/ \E state \in ChannelStates : Snapshot(state)
  \/ \E err \in BOOLEAN : Disconnect(err)
  \/ Enable
  \/ \E id \in 1..rpcEngine.idCounter :
       \E frame \in framesFor(id) : ReceiveResponse(id, frame)
  \/ \E state \in ChannelStates : SnapshotB(state)
  \/ \E err \in BOOLEAN : DisconnectB(err)

\* Every way into the call path, over a stream that may go down, and the
\* synchronous facade beside it.
AsyncNext ==
  \/ \E form \in SendForms : \E method \in AsyncMethods : Send(form, method)
  \/ Enable
  \/ IsApproved
  \/ GetAccounts
  \/ \E id \in 1..rpcEngine.idCounter :
       \E frame \in framesFor(id) : ReceiveResponse(id, frame)
  \/ \E method \in SyncMethods : SendSync(method)
  \/ \E err \in BOOLEAN : Disconnect(err)

Next ==
  MirrorNext \/ RpcNext \/ ChannelNext \/ IdNext \/ TwoNext \/ AsyncNext

\* The provider as a whole.
Spec == Init /\ [][Next]_vars

\* Snapshot leaves rpcVars unchanged and the call path leaves mirrorVars
\* unchanged, and neither reads the other's variables: each part is checked
\* on its own, with the steps both share (disconnection, listeners).
MirrorSpec == Init /\ [][MirrorNext]_vars
RpcSpec == Init /\ [][RpcNext]_vars
ChannelSpec == Init /\ [][ChannelNext]_vars
IdSpec == Init /\ [][IdNext]_vars
TwoSpec == Init /\ [][TwoNext]_vars
AsyncSpec == Init /\ [][AsyncNext]_vars

\* A response the peer can deliver is delivered: while the stream is up, the
\* frames written to it reach the stream middleware.
Deliver == \E id \in 1..rpcEngine.idCounter :
             \E frame \in framesFor(id) : ReceiveResponse(id, frame)
FairRpcSpec == RpcSpec /\ WF_vars(Deliver)

----------------------------------------------------------------------------
(* Reading the state *)

\* The application's call i is still kept by the stream middleware.
Pending(i) ==
  \E id \in DOMAIN rpcEngine.idMap :
    rpcEngine.idMap[id].cb = Callback("user", i)

\* The permission request of promise p is still kept by the stream middleware.
PermissionPending(p) ==
  \E id \in DOMAIN rpcEngine.idMap :
    rpcEngine.idMap[id].cb = Callback("enable", p)

\* The request sendAsync call i stands for has got its response.
Answered(i) ==
  IF sent[i].method = "eth_requestAccounts"
    THEN ~PermissionPending(sent[i].promise)
    ELSE ~Pending(i)

RequestOf(i) == [ method |-> sent[i].method, params |-> sent[i].params ]

\* The events es hold one with this name for the listeners of target.
HasEvent(es, target, name) ==
  \E k \in DOMAIN es : es[k].target = target /\ es[k].name = name

\* The contexts the stream middleware took in during the step.
NewContexts ==
  { rpcEngine'.idMap[id] :
      id \in DOMAIN rpcEngine'.idMap \ DOMAIN rpcEngine.idMap }

\* The state object holds this field with a value other than the mirrored one.
Differs(state, key, mirrored) == In(key, state) /\ state[key] # mirrored

----------------------------------------------------------------------------
(* Claims *)

\* C1: a call made through sendAsync while the stream was up, and still
\* waiting for its response when the stream ends or errors, is in the end
\* completed with an error: its callback is called with one.
C1_PendingCompletedOnDisconnect ==
  \A i \in 1..MaxCalls :
    (ended /\ i <= Len(sent) /\ sent[i].live /\ Pending(i))
      ~> (i <= Len(sent) /\ sent[i].cbCount > 0
            /\ (sent[i].cbErr # NoError \/ sent[i].cbRes.error # NoError))

\* C2: the callback of every sendAsync call, whatever its method, is called
\* exactly once: never twice, and once as soon as the response to its request
\* has arrived or the stream has gone down.
C2_CallbackExactlyOnce ==
  \A i \in 1..Len(sent) :
    /\ sent[i].cbCount <= 1
    /\ (Answered(i) \/ ended) => sent[i].cbCount = 1

\* C3: with several calls outstanding and the responses coming in any order,
\* the callback of a call gets the result or the error of the response to its
\* own request, never that of another call's request.
C3_OwnResponse ==
  \A i \in 1..Len(sent) :
    sent[i].cbCount > 0 =>
      /\ sent[i].cbErr = NoError
      /\ sent[i].cbRes \in peerResponses(RequestOf(i))

\* Call 2 is completed with its result while call 1, made before it, waits.
C3_Witness ==
  /\ Len(sent) >= 2
  /\ Pending(1)
  /\ sent[2].cbCount = 1
  /\ sent[2].cbRes.result = << sent[2].method, sent[2].params >>


\* C4: of the state objects received, the first one, and only the first one,
\* makes the provider emit `connect` to its listeners.
C4_ConnectOnFirstSnapshotOnly ==
  [][ \A state \in Snapshots :
        Snapshot(state) =>
          (HasEvent(emitted', "provider", "connect") <=> ~snapshotSeen) ]_vars

\* C5: a state object raises accountsChanged only if it holds selectedAddress
\* with a value other than the mirrored one, and networkChanged only if it
\* holds networkVersion with a value other than the mirrored one; the same
\* state object received twice in a row raises no change event the second
\* time; one that changes networkVersion only raises networkChanged and not
\* accountsChanged.
C5_EdgeTriggered ==
  [][ \A state \in Snapshots :
        Snapshot(state) =>
          /\ HasEvent(emitted', "provider", "accountsChanged")
                => Differs(state, "selectedAddress", selectedAddress)
          /\ HasEvent(emitted', "provider", "networkChanged")
                => Differs(state, "networkVersion", networkVersion)
          /\ (snapshotSeen /\ state = publicConfigStore)
                => /\ ~HasEvent(emitted', "provider", "accountsChanged")
                   /\ ~HasEvent(emitted', "provider", "networkChanged")
          /\ (Differs(state, "networkVersion", networkVersion)
                /\ ~Differs(state, "selectedAddress", selectedAddress))
                => /\ HasEvent(emitted', "provider", "networkChanged")
                   /\ ~HasEvent(emitted', "provider", "accountsChanged") ]_vars

\* A state object with the mirrored address and another network has just
\* raised networkChanged alone.
C5_Witness ==
  /\ selectedAddress \in Addresses
  /\ publicConfigStore.selectedAddress = selectedAddress
  /\ HasEvent(emitted, "provider", "networkChanged")
  /\ ~HasEvent(emitted, "provider", "accountsChanged")

\* C6: a state object without selectedAddress (or without networkVersion)
\* leaves the provider's mirrored value of that field as it was and raises no
\* change event for it.
C6_AbsentFieldUnchanged ==
  [][ \A state \in Snapshots :
        Snapshot(state) =>
          /\ ~In("selectedAddress", state)
                => /\ selectedAddress' = selectedAddress
                   /\ ~HasEvent(emitted', "provider", "accountsChanged")
          /\ ~In("networkVersion", state)
                => /\ networkVersion' = networkVersion
                   /\ ~HasEvent(emitted', "provider", "networkChanged") ]_vars

\* The last state object held neither field, and the provider still mirrors
\* an address and a network.
C6_Witness ==
  /\ publicConfigStore.selectedAddress = Absent
  /\ publicConfigStore.networkVersion = Absent
  /\ selectedAddress \in Addresses
  /\ networkVersion \in NetworkIds
  /\ emitted = << >>

\* C7: in every state _sendSync answers from the provider's mirrored values:
\* eth_accounts gives [A] when the mirrored selectedAddress is an address A
\* and [] otherwise, eth_coinbase gives A or null, net_version gives the
\* mirrored networkVersion or null.
C7_SyncFacadeAgreesWithMirror ==
  /\ _sendSync("eth_accounts").result =
       (IF selectedAddress \in Addresses THEN << selectedAddress >> ELSE << >>)
  /\ _sendSync("eth_coinbase").result =
       (IF selectedAddress \in Addresses THEN selectedAddress ELSE Null)
  /\ _sendSync("net_version").result =
       (IF networkVersion \in NetworkIds THEN networkVersion ELSE Null)

\* C8: enable() issues one permission request; when its response holds no
\* error, isEnabled becomes true and one eth_accounts call is issued, and when
\* that one succeeds the promise resolves with the list it returned.
\* isEnabled() stays true once true, and turns true only when the response to
\* a permission request holds no error.
C8_EnableResolves ==
  [][ /\ \A p \in DOMAIN promises' \ DOMAIN promises :
           NewContexts =
             { [ req |-> [ id |-> rpcEngine'.idCounter,
                           method |-> "wallet_requestPermissions",
                           params |-> "[{eth_accounts:{}}]" ],
                 cb |-> Callback("enable", p) ] }
      /\ \A id \in DOMAIN rpcEngine.idMap : \A frame \in framesFor(id) :
           (ReceiveResponse(id, frame) /\ frame.error = NoError) =>
             LET cb == rpcEngine.idMap[id].cb
             IN  /\ cb.kind = "enable" =>
                      /\ isEnabled'
                      /\ promises'[cb.ref].state = "pending"
                      /\ NewContexts =
                           { [ req |-> [ id |-> rpcEngine'.idCounter,
                                         method |-> "eth_accounts",
                                         params |-> "[]" ],
                               cb |-> Callback("getAccounts", cb.ref) ] }
                 /\ cb.kind = "getAccounts" =>
                      /\ promises'[cb.ref].state = "resolved"
                      /\ promises'[cb.ref].value = frame.result
                      /\ isEnabled'
      /\ isEnabled => isEnabled'
      /\ (~isEnabled /\ isEnabled') =>
           \E id \in DOMAIN rpcEngine.idMap : \E frame \in framesFor(id) :
             /\ ReceiveResponse(id, frame)
             /\ rpcEngine.idMap[id].req.method = "wallet_requestPermissions"
             /\ frame.error = NoError ]_vars

\* A promise of enable() is resolved with the account list the peer returned.
C8_Witness ==
  \E p \in DOMAIN promises :
    /\ promises[p].state = "resolved"
    /\ promises[p].value = << "0xabc" >>
    /\ isEnabled

\* C9: when the permission request of enable() is answered with an error, the
\* promise rejects, with the server's error object when its code is 5 and
\* with { message: the error, code: 4001 } otherwise; no eth_accounts call is
\* issued, isEnabled keeps its value, and a rejected promise stays rejected.
C9_EnableRejects ==
  [][ /\ \A id \in DOMAIN rpcEngine.idMap : \A frame \in framesFor(id) :
           ( /\ ReceiveResponse(id, frame)
             /\ rpcEngine.idMap[id].cb.kind = "enable"
             /\ frame.error # NoError ) =>
             LET p == rpcEngine.idMap[id].cb.ref
             IN  /\ promises'[p].state = "rejected"
                 /\ promises'[p].reason.code =
                      (IF frame.error.code = 5 THEN 5 ELSE 4001)
                 /\ frame.error.code = 5 => promises'[p].reason = frame.error
                 /\ frame.error.code # 5 =>
                      promises'[p].reason.message = frame.error
                 /\ NewContexts = {}
                 /\ rpcEngine'.idCounter = rpcEngine.idCounter
                 /\ isEnabled' = isEnabled
      /\ \A p \in DOMAIN promises :
           promises[p].state = "rejected" => promises'[p].state = "rejected"
    ]_vars

\* A promise of enable() is rejected with the error of code 5 the peer gave,
\* and isEnabled is still false.
C9_Witness ==
  \E p \in DOMAIN promises :
    /\ promises[p].state = "rejected"
    /\ promises[p].reason.code = 5
    /\ promises[p].reason.message = "User rejected"
    /\ ~isEnabled

\* C10: the payload of every accountsChanged event is [A] when the new
\* selectedAddress is an address A and [] when it is empty: a list of
\* addresses, never holding undefined or null.
C10_AccountsChangedPayload ==
  \A k \in DOMAIN emitted :
    emitted[k].name = "accountsChanged" =>
      emitted[k].args[1] =
        (IF selectedAddress \in Addresses THEN << selectedAddress >> ELSE << >>)

\* C11: every message the peer pushes on the 'provider' channel with no id
\* and method eth_subscription makes the provider emit one `data` event
\* carrying the message as it came and one `notification` event carrying its
\* params.result, and no callback of a call is called with it.
C11_SubscriptionPushDelivered ==
  [][ LET frame == inbound'
      IN
        ( /\ Write(frame)
          /\ frame.name = "provider"
          /\ frame.data.id = NoId
          /\ frame.data.method = "eth_subscription" ) =>
          /\ \E k \in DOMAIN emitted' :
                /\ emitted'[k] = Event("provider", "data", << Null, frame.data >>)
                /\ \A j \in DOMAIN emitted' :
                     emitted'[j].name = "data" => j = k
          /\ \E k \in DOMAIN emitted' :
                /\ emitted'[k] = Event("provider", "notification",
                                       << frame.data.params.result >>)
                /\ \A j \in DOMAIN emitted' :
                     emitted'[j].name = "notification" => j = k
          /\ sent' = sent ]_vars

C13_ChannelIsolation ==
  [][ LET frame == inbound'
      IN  Write(frame) =>
          /\ frame.name = "provider" => mirrorVars' = mirrorVars
          /\ frame.name = "publicConfig" =>
                /\ rpcVars' = rpcVars
                /\ ~HasEvent(emitted', "provider", "data")
                /\ ~HasEvent(emitted', "provider", "notification")
          /\ frame.name = "phishing" =>
                /\ mirrorVars' = mirrorVars
                /\ rpcVars' = rpcVars
                /\ << ended, errorListeners, subscribed >>'
                     = << ended, errorListeners, subscribed >>
                /\ emitted' = << >>
                /\ ~thrown' ]_vars

\* The last frame came under 'phishing' and held the response to a request
\* that is pending: the call is still not completed; no state object has
\* reached the mirror although one came under 'provider' or 'phishing'.
C13_Witness ==
  /\ inbound.name = "phishing"
  /\ inbound.data.id \in DOMAIN rpcEngine.idMap
  /\ inbound.data.result = << "eth_call", "1" >>
  /\ Len(sent) >= 1 /\ Pending(1) /\ sent[1].cbCount = 0
  /\ ~snapshotSeen

\* C14: with two instances A and B on separate streams, no step of A (a
\* state object received, a disconnection, a response that makes enable()
\* succeed) changes what B.isConnected() or B.isEnabled() returns, and the
\* first state object B receives, and only that one, raises B's `connect`,
\* whether or not A is connected.
C14_InstancesIndependent ==
  [][ /\ ( \/ \E state \in ChannelStates : Snapshot(state)
           \/ \E err \in BOOLEAN : Disconnect(err)
           \/ Enable
           \/ \E id \in 1..rpcEngine.idCounter :
                \E frame \in framesFor(id) : ReceiveResponse(id, frame) ) =>
           /\ isConnectedOf("B")' = isConnectedOf("B")
           /\ isEnabledOf("B")' = isEnabledOf("B")
      /\ \A state \in ChannelStates :
           SnapshotB(state) =>
             ( ( \/ HasEvent(emitted', "publicConfigStoreB", "connect")
                 \/ HasEvent(emitted', "providerB", "connect") )
               <=> ~instanceB.snapshotSeen ) ]_vars

\* C15: no step of the call path throws: not send, sendAsync, enable,
\* isApproved or getAccounts, not the callbacks they give to the engine when
\* the response holds an error, not the disconnection.  A step that throws is
\* _sendSync called with a method it does not answer.
C15_AsyncNeverThrows ==
  [][ thrown' =>
        \E method \in SyncMethods \ SupportedSync : SendSync(method) ]_vars

\* The stream is down; before that, a promise of send was rejected with the
\* peer's internal error and the callback of a sendAsync call was called with
\* the peer's error of code 5; the last step threw nothing.
C15_Witness ==
  /\ ended
  /\ ~thrown
  /\ \E p \in DOMAIN promises :
       /\ promises[p].state = "rejected"
       /\ promises[p].reason.code = 0 - 32603
  /\ \E i \in DOMAIN sent :
       /\ sent[i].cbCount = 1
       /\ sent[i].cbRes.error.code = 5

\* C16: when the connection stream ends or errors, an `error` event is raised
\* to the provider's listeners only if an 'error' listener is registered at
\* that moment; with none registered nothing is emitted, and nothing is
\* thrown.
C16_ErrorOnlyWithListener ==
  [][ \A err \in BOOLEAN :
        Disconnect(err) =>
          /\ HasEvent(emitted', "provider", "error") => errorListeners # {}
          /\ errorListeners = {} => emitted' = << >>
          /\ ~thrown' ]_vars

\* The stream went down after a state object had been received, with no
\* 'error' listener registered then or since: nothing was emitted or thrown.
C16_Witness ==
  /\ ended
  /\ snapshotSeen
  /\ errorListeners = {}
  /\ ~isConnected
  /\ emitted = << >>
  /\ ~thrown

\* C17: _sendSync called with a method outside eth_accounts, eth_coinbase,
\* eth_uninstallFilter and net_version (eth_call, say) throws at the call and
\* returns no value, hands no request to the rpc engine, and leaves the
\* provider's state as it was.
C17_UnsupportedSyncThrows ==
  [][ \A method \in SyncMethods \ SupportedSync :
        SendSync(method) =>
          /\ thrown'
          /\ _sendSync(method).threw
          /\ _sendSync(method).result = Undefined
          /\ NewContexts = {}
          /\ rpcVars' = rpcVars
          /\ mirrorVars' = mirrorVars
          /\ << ended, errorListeners, subscribed >>'
               = << ended, errorListeners, subscribed >> ]_vars

\* _sendSync has just thrown, with an address mirrored and a request of an
\* earlier eth_uninstallFilter still pending.
C17_Witness ==
  /\ thrown
  /\ selectedAddress \in Addresses
  /\ rpcEngine.idCounter = 1
  /\ 1 \in DOMAIN rpcEngine.idMap

\* C18: _sendSync called with eth_uninstallFilter returns result true in the
\* same step, with no response from the peer yet, and hands the rpc engine
\* exactly one request, of the payload's method and params, with a callback
\* that does nothing; whatever the peer then answers, or if it never does,
\* the answer of _sendSync is the same and no call or promise is touched.
C18_UninstallFilterImmediate ==
  [][ /\ SendSync("eth_uninstallFilter") =>
           /\ ~thrown'
           /\ NewContexts =
                { [ req |-> [ id |-> rpcEngine.idCounter + 1,
                              method |-> "eth_uninstallFilter",
                              params |-> "[filterId]" ],
                    cb |-> noop ] }
           /\ DOMAIN rpcEngine.idMap \subseteq DOMAIN rpcEngine'.idMap
           /\ << sent, promises, isEnabled >>' = << sent, promises, isEnabled >>
      /\ (_sendSync("eth_uninstallFilter"))' =
           [ method |-> "eth_uninstallFilter", threw |-> FALSE,
             result |-> "true" ]
      /\ \A id \in DOMAIN rpcEngine.idMap : \A frame \in framesFor(id) :
           (ReceiveResponse(id, frame) /\ rpcEngine.idMap[id].cb = noop) =>
             << sent, promises, isEnabled >>' = << sent, promises, isEnabled >>
    ]_vars

\* Two eth_uninstallFilter calls were made through _sendSync and nothing
\* else; the request of the first has been answered, the one of the second
\* is pending and the stream is down.
C18_Witness ==
  /\ rpcEngine.idCounter = 2
  /\ DOMAIN rpcEngine.idMap = { 2 }
  /\ rpcEngine.idMap[2].req.method = "eth_uninstallFilter"
  /\ sent = << >> /\ promises = << >>
  /\ ended

\* C19: isConnected() of a provider is false until its first state object is
\* received, turns true at that one and at no other step, turns false when
\* its connection stream ends or errors and at no other step, and once the
\* stream has ended it is false for good and no `connect` is raised.
C19_ConnectionEdges ==
  [][ /\ ~snapshotSeen' => ~isConnectedOf("A")'
      /\ (~isConnectedOf("A") /\ isConnectedOf("A")')
           => (~snapshotSeen /\ snapshotSeen')
      /\ (~snapshotSeen /\ snapshotSeen') => isConnectedOf("A")'
      /\ (isConnectedOf("A") /\ ~isConnectedOf("A")') => (~ended /\ ended')
      /\ ended' => ~isConnectedOf("A")'
      /\ ended => /\ ~HasEvent(emitted', "publicConfigStore", "connect")
                  /\ ~HasEvent(emitted', "provider", "connect") ]_vars

\* C20: isEnabled() is true only if a promise of enable() has resolved; when
\* every enable() so far has had its promise rejected, the follow-up
\* eth_accounts call having failed or not, isEnabled() is false as it was
\* before them.
C20_EnabledOnlyIfResolved ==
  isEnabledOf("A") =>
    \E p \in DOMAIN promises : promises[p].state = "resolved"

====
